---- MODULE Spec2Model ----
(***************************************************************************)
(* Finite-difference sampler (easyvvuq/sampling/fd.py) and finite-         *)
(* difference analysis (easyvvuq/analysis/fd_analysis.py).                  *)
(*                                                                         *)
(* Real numbers are exact extended rationals <<n, d>> in lowest terms:     *)
(* d > 0 is a finite value, <<1,0>> / <<-1,0>> are +inf / -inf and         *)
(* <<0,0>> is nan, the values numpy arithmetic produces without raising.   *)
(* Binary floating-point rounding is not modelled.                         *)
(***************************************************************************)
EXTENDS Integers, Sequences, FiniteSets, TLC

VARIABLES
    args,      \* the arguments of the last FDSampler(...) call, or NoArgs
    sampler,   \* the FDSampler object (or the exception its constructor raised)
    last,      \* outcome of the latest __next__ call made by the caller
    runs,      \* the samples handed to the caller so far, in pull order
    produced,  \* samples produced by __next__ so far, fast-forward replays included
    extra,     \* pulls made after the first exhaustion signal
    analysis,  \* the FDAnalysis object (or the exception its constructor raised)
    table,     \* the arguments given to FDAnalysis(...) and to analyse(...)
    outcome,   \* what the analyse() call returned or raised: the results object
    described  \* the latest _describe(qoi, statistic) call on a results object

vars == <<args, sampler, last, runs, produced, extra, analysis, table, outcome,
          described>>

-----------------------------------------------------------------------------
(* Bounds of the model *)

MaxParams == 2        \* at most this many varied parameters
MaxStart == 6         \* largest fast-forward count tried
MaxExtraPulls == 1    \* pulls tried after the first exhaustion signal

-----------------------------------------------------------------------------
(* Extended rational arithmetic (numpy float semantics, exact) *)

Abs(n) == IF n < 0 THEN -n ELSE n

Sign(n) == IF n > 0 THEN 1 ELSE IF n < 0 THEN -1 ELSE 0

RECURSIVE Gcd(_, _)
Gcd(a, b) == IF b = 0 THEN a ELSE Gcd(b, a % b)

Norm(n, d) ==
    IF d = 0 THEN <<Sign(n), 0>>
    ELSE LET g == Gcd(Abs(n), Abs(d))
         IN  <<(Sign(d) * n) \div g, Abs(d) \div g>>

R(n) == <<n, 1>>
Zero == R(0)
One == R(1)
Half == <<1, 2>>
NaN == <<0, 0>>

IsFinite(a) == a[2] # 0

RNeg(a) == <<-a[1], a[2]>>

RAdd(a, b) ==
    IF IsFinite(a) /\ IsFinite(b) THEN Norm(a[1] * b[2] + b[1] * a[2], a[2] * b[2])
    ELSE IF a = NaN \/ b = NaN THEN NaN
    ELSE IF IsFinite(a) THEN b
    ELSE IF IsFinite(b) THEN a
    ELSE IF a = b THEN a ELSE NaN

RSub(a, b) == RAdd(a, RNeg(b))

RMul(a, b) == Norm(a[1] * b[1], a[2] * b[2])

\* x / 0 is +-inf (nan for 0 / 0), x / inf is 0; a zero divisor counts as +0.
RDiv(a, b) ==
    IF b[1] = 0 THEN <<IF b[2] = 0 THEN 0 ELSE Sign(a[1]), 0>>
    ELSE Norm(a[1] * b[2] * Sign(b[1]), a[2] * Abs(b[1]))

\* float ==: nan equals nothing
REq(a, b) == a = b /\ a # NaN

\* range(n)
Range(n) == 0 .. (n - 1)

\* a Python list as a function on 0 .. len-1
List(seq) == [i \in Range(Len(seq)) |-> seq[i + 1]]

\* len(x) of such a list
PyLen(f) == Cardinality(DOMAIN f)

-----------------------------------------------------------------------------
(* Values the constructor arguments are drawn from *)

ParamNames == <<"x", "y", "z">>

\* means of the normal marginals
Means == {-1, 0, 2}

\* cp.Normal(mean, .) and a non-normal marginal
Normal(nm, mu) == [name |-> nm, kind |-> "Normal", mean |-> mu]
Uniform(nm) == [name |-> nm, kind |-> "Uniform", mean |-> 0]

Marginals(nm) == {Normal(nm, mu) : mu \in Means} \cup {Uniform(nm)}

\* the dicts of P entries, keys in insertion order
RECURSIVE DictsOfLen(_)
DictsOfLen(P) ==
    IF P = 0 THEN {<<>>}
    ELSE {Append(d, m) : d \in DictsOfLen(P - 1), m \in Marginals(ParamNames[P])}

VaryNone == [type |-> "NoneType", items |-> List(<<>>)]
VaryList == [type |-> "list", items |-> List(<<>>)]
VaryDict(seq) == [type |-> "dict", items |-> List(seq)]

VaryArgs ==
    {VaryNone, VaryList}
    \cup {VaryDict(d) : d \in UNION {DictsOfLen(P) : P \in 0 .. MaxParams}}

Perturbations == {<<1, 10>>, <<1, 2>>}

\* perturbation is not validated: the floats 0.0 and nan are taken as well
EdgePerturbations == {<<1, 10>>, Zero, NaN}

\* the off-diagonal entry of the correlation / covariance matrices tried
Rho == <<1, 2>>

Matrix(n, diag) == [i \in Range(n) |-> [j \in Range(n) |-> IF i = j THEN diag[i] ELSE Rho]]

Ones(n) == [i \in Range(n) |-> One]

DistNone == [type |-> "NoneType"]
DistStr == [type |-> "str"]
DistList(m) == [type |-> "list", matrix |-> m]
DistJoint(cls, dep, mu) ==
    [type |-> "distributions", cls |-> cls, stochastic_dependent |-> dep,
     mean |-> mu, cov |-> Matrix(PyLen(mu), Ones(PyLen(mu)))]

\* the mean of every marginal of a vary argument, in its iteration order
MeansOf(vary) == [i \in DOMAIN vary.items |-> R(vary.items[i].mean)]

\* dependency descriptors tried with a given vary argument
DistArgs(vary) ==
    LET P == PyLen(vary.items)
        mu == MeansOf(vary)
    IN  {DistNone, DistStr,
         DistList(Matrix(P, Ones(P))),
         DistList(Matrix(P + 1, Ones(P + 1))),
         DistJoint("MvNormal", TRUE, mu),
         DistJoint("MvNormal", TRUE, [i \in Range(P + 1) |-> Zero]),
         DistJoint("J", FALSE, mu),
         DistJoint("J", TRUE, mu)}
        \cup {DistList(Matrix(P, [Ones(P) EXCEPT ![i] = R(2)])) : i \in Range(P)}
        \cup {DistJoint("MvNormal", TRUE, [mu EXCEPT ![i] = RAdd(@, One)]) : i \in Range(P)}

-----------------------------------------------------------------------------
(* FDSampler *)

\* Transformations.cholesky / Transformations.rosenblatt: each column of the
\* grid is mapped on its own and keeps its shape; moving parameter k away
\* from its base value moves every later parameter i by w[i][k] times as much.
RECURSIVE Induced(_, _, _, _, _)
Induced(nodes, w, i, j, k) ==
    IF k >= i THEN Zero
    ELSE RAdd(RMul(w[i][k], RSub(nodes[k][j], nodes[k][0])),
              Induced(nodes, w, i, j, k + 1))

Transform(nodes, w) ==
    [i \in DOMAIN nodes |-> [j \in DOMAIN nodes[i] |->
        RAdd(nodes[i][j], Induced(nodes, w, i, j, 0))]]

cholesky(nodes, vary_, corr) == Transform(nodes, corr)

rosenblatt(nodes, distribution_, distribution_dep_) == Transform(nodes, distribution_dep_.cov)

NoGrid == List(<<>>)

\* what a raise leaves of the object under construction: nothing usable
Raised(exc) == [status |-> "error", exc |-> exc]

\* PerturbNodes with the pair in the order of the source's comment, [0, -d, d]
RECURSIVE PerturbNodes_negfirst(_, _, _, _, _, _)
PerturbNodes_negfirst(nodes, p, offset, params_num, relative_analysis, perturbation) ==
    IF p >= params_num THEN nodes
    ELSE LET pos == IF relative_analysis THEN perturbation
                    ELSE RMul(RAdd(One, perturbation), nodes[p][offset])
             neg == IF relative_analysis THEN RNeg(perturbation)
                    ELSE RMul(RSub(One, perturbation), nodes[p][offset + 1])
             upd == [nodes EXCEPT ![p][offset] = neg, ![p][offset + 1] = pos]
         IN  PerturbNodes_negfirst(upd, p + 1, offset + 2, params_num,
                                   relative_analysis, perturbation)

\* the node loop perturbing multiplicatively in relative mode as well
RECURSIVE PerturbNodes_scaled(_, _, _, _, _, _)
PerturbNodes_scaled(nodes, p, offset, params_num, relative_analysis, perturbation) ==
    IF p >= params_num THEN nodes
    ELSE LET pos == RMul(RAdd(One, perturbation), nodes[p][offset])
             neg == RMul(RSub(One, perturbation), nodes[p][offset + 1])
             upd == [nodes EXCEPT ![p][offset] = pos, ![p][offset + 1] = neg]
         IN  PerturbNodes_scaled(upd, p + 1, offset + 2, params_num,
                                 relative_analysis, perturbation)

\* the independent-node loop of generate_nodes: parameter p gets its positive
\* perturbation at column offset and its negative one at column offset + 1
RECURSIVE PerturbNodes(_, _, _, _, _, _)
PerturbNodes(nodes, p, offset, params_num, relative_analysis, perturbation) ==
    IF p >= params_num THEN nodes
    ELSE LET pos == IF relative_analysis THEN perturbation
                    ELSE RMul(RAdd(One, perturbation), nodes[p][offset])
             neg == IF relative_analysis THEN RNeg(perturbation)
                    ELSE RMul(RSub(One, perturbation), nodes[p][offset + 1])
             upd == [nodes EXCEPT ![p][offset] = pos, ![p][offset + 1] = neg]
         IN  PerturbNodes(upd, p + 1, offset + 2, params_num, relative_analysis,
                          perturbation)

\* the dispatch without the check of the matrix diagonal
Dispatch_nodiag(distribution, params_num) ==
    IF distribution.type = "distributions" THEN
        IF distribution.stochastic_dependent THEN
            IF distribution.cls # "MvNormal" THEN [exc |-> "AssertionError"]
            ELSE IF PyLen(distribution.mean) # params_num THEN [exc |-> "AssertionError"]
            ELSE [exc |-> "none", is_dependent |-> TRUE, transformation |-> "Rosenblatt"]
        ELSE [exc |-> "ValueError"]
    ELSE IF distribution.type \in {"list", "ndarray"} THEN
        IF PyLen(distribution.matrix) # params_num THEN [exc |-> "AssertionError"]
        ELSE [exc |-> "none", is_dependent |-> TRUE, transformation |-> "Cholesky"]
    ELSE IF distribution.type = "NoneType" THEN
        [exc |-> "none", is_dependent |-> FALSE, transformation |-> "None"]
    ELSE [exc |-> "ValueError"]

\* the dispatch on the type of the distribution argument
Dispatch(distribution, params_num) ==
    IF distribution.type = "distributions" THEN
        IF distribution.stochastic_dependent THEN
            IF distribution.cls # "MvNormal" THEN [exc |-> "AssertionError"]
            ELSE IF PyLen(distribution.mean) # params_num THEN [exc |-> "AssertionError"]
            ELSE [exc |-> "none", is_dependent |-> TRUE, transformation |-> "Rosenblatt"]
        ELSE [exc |-> "ValueError"]
    ELSE IF distribution.type \in {"list", "ndarray"} THEN
        IF PyLen(distribution.matrix) # params_num THEN [exc |-> "AssertionError"]
        ELSE IF \E i \in Range(params_num) : ~REq(distribution.matrix[i][i], One)
             THEN [exc |-> "AssertionError"]
        ELSE [exc |-> "none", is_dependent |-> TRUE, transformation |-> "Cholesky"]
    ELSE IF distribution.type = "NoneType" THEN
        [exc |-> "none", is_dependent |-> FALSE, transformation |-> "None"]
    ELSE [exc |-> "ValueError"]

\* the Rosenblatt assertions made for the first parameter only
RosenblattAgrees_first(vary, distribution) ==
    \A id_v \in DOMAIN vary.items \cap {0} :
        /\ vary.items[id_v].kind = "Normal"
        /\ REq(R(vary.items[id_v].mean), distribution.mean[id_v])

\* the assertions of the Rosenblatt branch: every marginal is normal and its
\* mean is the joint distribution's mean at the same index
RosenblattAgrees(vary, distribution) ==
    \A id_v \in DOMAIN vary.items :
        /\ vary.items[id_v].kind = "Normal"
        /\ REq(R(vary.items[id_v].mean), distribution.mean[id_v])

generate_nodes(base_value, vary, distribution, relative_analysis, perturbation) ==
    LET params_num == PyLen(base_value)
        n_samples == 2 * params_num + 1
        d == Dispatch(distribution, params_num)
        base == [i \in Range(params_num) |-> [j \in Range(n_samples) |-> base_value[i]]]
        nodes == PerturbNodes(base, 0, 1, params_num, relative_analysis, perturbation)
        built == [status |-> "ok", n_samples |-> n_samples,
                  is_dependent |-> d.is_dependent, transformation |-> d.transformation,
                  nodes |-> nodes, nodes_dep |-> NoGrid]
    IN  IF d.exc # "none" THEN Raised(d.exc)
        ELSE IF ~d.is_dependent THEN built
        ELSE IF d.transformation = "Rosenblatt" THEN
            IF ~RosenblattAgrees(vary, distribution) THEN Raised("AssertionError")
            ELSE [built EXCEPT !.nodes_dep = rosenblatt(nodes, vary, distribution)]
        ELSE [built EXCEPT !.nodes_dep = cholesky(nodes, vary, distribution.matrix)]

\* __next__ that stops one sample early
next_short(s) ==
    IF s.count < s.n_samples - 1 THEN
        [raised |-> FALSE,
         run_dict |-> [i \in DOMAIN s.vary |->
                          [name |-> s.vary[i],
                           value |-> IF s.is_dependent THEN s.nodes_dep[i][s.count]
                                     ELSE s.nodes[i][s.count]]],
         s |-> [s EXCEPT !.count = @ + 1]]
    ELSE [raised |-> TRUE, run_dict |-> NoGrid, s |-> s]

\* __next__ that advances the cursor by two
next_skip(s) ==
    IF s.count < s.n_samples THEN
        [raised |-> FALSE,
         run_dict |-> [i \in DOMAIN s.vary |->
                          [name |-> s.vary[i],
                           value |-> IF s.is_dependent THEN s.nodes_dep[i][s.count]
                                     ELSE s.nodes[i][s.count]]],
         s |-> [s EXCEPT !.count = @ + 2]]
    ELSE [raised |-> TRUE, run_dict |-> NoGrid, s |-> s]

\* __next__ reading the independent grid whatever the dependency
next_indep(s) ==
    IF s.count < s.n_samples THEN
        [raised |-> FALSE,
         run_dict |-> [i \in DOMAIN s.vary |->
                          [name |-> s.vary[i], value |-> s.nodes[i][s.count]]],
         s |-> [s EXCEPT !.count = @ + 1]]
    ELSE [raised |-> TRUE, run_dict |-> NoGrid, s |-> s]

\* __next__ that counts n_samples down while it counts the cursor up
next_countdown(s) ==
    IF s.count < s.n_samples THEN
        [raised |-> FALSE,
         run_dict |-> [i \in DOMAIN s.vary |->
                          [name |-> s.vary[i],
                           value |-> IF s.is_dependent THEN s.nodes_dep[i][s.count]
                                     ELSE s.nodes[i][s.count]]],
         s |-> [s EXCEPT !.count = @ + 1, !.n_samples = @ - 1]]
    ELSE [raised |-> TRUE, run_dict |-> NoGrid, s |-> s]

\* FDSampler.__next__ on object s: the object afterwards and what the call gave
next(s) ==
    IF s.count < s.n_samples THEN
        [raised |-> FALSE,
         run_dict |-> [i \in DOMAIN s.vary |->
                          [name |-> s.vary[i],
                           value |-> IF s.is_dependent THEN s.nodes_dep[i][s.count]
                                     ELSE s.nodes[i][s.count]]],
         s |-> [s EXCEPT !.count = @ + 1]]
    ELSE [raised |-> TRUE, run_dict |-> NoGrid, s |-> s]

\* for i in range(count): self.__next__(); made counts the samples replayed
RECURSIVE FastForward(_, _, _, _)
FastForward(s, i, count, made) ==
    IF i >= count THEN [s |-> s, made |-> made]
    ELSE LET r == next(s)
         IN  IF r.raised THEN [s |-> Raised("StopIteration"), made |-> made]
             ELSE FastForward(r.s, i + 1, count, made + 1)

\* the checks of the vary argument without the one for an empty dict
CheckVary_noempty(vary) ==
    IF vary.type = "NoneType" THEN "Exception"
    ELSE IF vary.type # "dict" THEN "Exception"
    ELSE "none"

\* the three checks of the vary argument: the exception raised, or "none"
CheckVary(vary) ==
    IF vary.type = "NoneType" THEN "Exception"
    ELSE IF vary.type # "dict" THEN "Exception"
    ELSE IF PyLen(vary.items) = 0 THEN "Exception"
    ELSE "none"

\* the assertion of non-relative mode: every marginal is a cp.Normal
AllNormal(vary) == \A i \in DOMAIN vary.items : vary.items[i].kind = "Normal"

\* base value that is the mean in relative mode too
BaseValue_mean(vary, relative_analysis) ==
    [i \in Range(PyLen(vary.items)) |-> R(vary.items[i].mean)]

\* base value of every parameter: 0 in relative mode, else the marginal's mean
BaseValue(vary, relative_analysis) ==
    LET params_num == PyLen(vary.items)
    IN  IF relative_analysis THEN [i \in Range(params_num) |-> Zero]
        ELSE [i \in Range(params_num) |-> R(vary.items[i].mean)]

\* FDSampler.__init__: the object built (or the exception) and the replays made
FDSampler(vary, distribution, perturbation, count, relative_analysis) ==
    IF CheckVary(vary) # "none" THEN [s |-> Raised(CheckVary(vary)), made |-> 0]
    ELSE IF ~relative_analysis /\ ~AllNormal(vary)
         THEN [s |-> Raised("AssertionError"), made |-> 0]
    ELSE
        LET base_value == BaseValue(vary, relative_analysis)
            g == generate_nodes(base_value, vary, distribution, relative_analysis,
                                perturbation)
            s0 == [status |-> "ok",
                   vary |-> [i \in DOMAIN vary.items |-> vary.items[i].name],
                   relative_analysis |-> relative_analysis,
                   perturbation |-> perturbation,
                   n_samples |-> g.n_samples,
                   is_dependent |-> g.is_dependent,
                   transformation |-> g.transformation,
                   nodes |-> g.nodes,
                   nodes_dep |-> g.nodes_dep,
                   count |-> 0]
        IN  IF g.status # "ok" THEN [s |-> g, made |-> 0]
            ELSE IF s0.count >= s0.n_samples THEN [s |-> s0, made |-> 0]
            ELSE FastForward(s0, 0, count, 0)

is_finite(s) == TRUE

n_samples(s) == s.n_samples


-----------------------------------------------------------------------------
(* FDAnalysis *)

\* numpy vectors of length T, as functions on 0 .. T-1
zeros(T) == [t \in Range(T) |-> Zero]

VSub(a, b) == [t \in DOMAIN a |-> RSub(a[t], b[t])]
VAdd(a, b) == [t \in DOMAIN a |-> RAdd(a[t], b[t])]
VDiv(a, b) == [t \in DOMAIN a |-> RDiv(a[t], b[t])]
VSubS(a, x) == [t \in DOMAIN a |-> RSub(a[t], x)]
VDivS(a, x) == [t \in DOMAIN a |-> RDiv(a[t], x)]
VScale(x, a) == [t \in DOMAIN a |-> RMul(x, a[t])]

\* np.all(np.array(base) == 0), np.any(np.array(base) == 0)
AllZero(base) == \A t \in DOMAIN base : REq(base[t], Zero)
AnyZero(base) == \E t \in DOMAIN base : REq(base[t], Zero)

\* the keys of a list used as dict keys
Keys(list) == {list[i] : i \in DOMAIN list}

\* FDAnalysis.__init__(sampler, qoi_cols); smp is [type |-> "NoneType"] or the
\* sampler object
FDAnalysis(smp, qoi_cols) ==
    IF smp.type = "NoneType" THEN Raised("RuntimeError")
    ELSE IF qoi_cols.type = "NoneType" THEN Raised("RuntimeError")
    ELSE [status |-> "ok",
          relative_analysis |-> smp.object.relative_analysis,
          qoi_cols |-> qoi_cols.items]

\* the dict analyse starts from: every category filled with its placeholder
InitialResults(qoi_cols, params, T) ==
    LET perParam == [k \in Keys(qoi_cols) |-> [p \in params |-> zeros(T)]]
    IN  [statistical_moments |->
             [k \in Keys(qoi_cols) |-> [mean |-> zeros(T), var |-> zeros(T), std |-> zeros(T)]],
         percentiles |->
             [k \in Keys(qoi_cols) |-> [p01 |-> zeros(T), p10 |-> zeros(T), p50 |-> zeros(T),
                                        p90 |-> zeros(T), p99 |-> zeros(T)]],
         sobols_first |-> perParam,
         sobols_second |-> perParam,
         sobols_total |-> perParam,
         correlation_matrices |-> [k \in Keys(qoi_cols) |-> NoGrid],
         output_distributions |-> [k \in Keys(qoi_cols) |-> NoGrid],
         fit |-> [k \in Keys(qoi_cols) |-> [polynomial |-> zeros(T)]],
         Fourier_coefficients |-> perParam,
         derivatives_first |-> perParam]

\* the estimate without the halving of the two one-sided differences
Estimate_sum(relative_analysis, y_base, y_pos, y_neg, d_pos, d_neg) ==
    IF relative_analysis
    THEN VAdd(VDivS(VSubS(VDiv(y_pos, y_base), One), d_pos),
              VDivS(VSubS(VDiv(y_neg, y_base), One), d_neg))
    ELSE VAdd(VDivS(VSub(y_pos, y_base), d_pos),
              VDivS(VSub(y_neg, y_base), d_neg))

\* the estimate stored for one parameter
Estimate(relative_analysis, y_base, y_pos, y_neg, d_pos, d_neg) ==
    IF relative_analysis
    THEN VAdd(VDivS(VScale(Half, VSubS(VDiv(y_pos, y_base), One)), d_pos),
              VDivS(VScale(Half, VSubS(VDiv(y_neg, y_base), One)), d_neg))
    ELSE VAdd(VDivS(VScale(Half, VSub(y_pos, y_base)), d_pos),
              VDivS(VScale(Half, VSub(y_neg, y_base)), d_neg))

\* the assertions of relative mode on the grid of parameter pi
RelativeAsserts(smp, nodes, pi, offset, d_pos, d_neg) ==
    LET delta_rel == smp.perturbation
    IN  /\ REq(nodes[pi][0], Zero)
        /\ ~smp.is_dependent => REq(d_pos, delta_rel) /\ REq(d_neg, RNeg(delta_rel))
        /\ REq(nodes[pi][offset], delta_rel)
        /\ REq(nodes[pi][offset + 1], RNeg(delta_rel))

\* the loop over the parameters storing the estimate under sobols_first as well
RECURSIVE ParamLoop_sobols(_, _, _, _, _, _, _)
ParamLoop_sobols(self, smp, values, results, k, pi, offset) ==
    IF pi >= PyLen(smp.vary) THEN [exc |-> "none", results |-> results]
    ELSE LET p == smp.vary[pi]
             nodes == smp.nodes
             y_base == values[0]
             y_pos == values[offset]
             y_neg == values[offset + 1]
             d_pos == RSub(nodes[pi][offset], nodes[pi][0])
             d_neg == RSub(nodes[pi][offset + 1], nodes[pi][0])
             est == Estimate(self.relative_analysis, y_base, y_pos, y_neg, d_pos, d_neg)
         IN  IF self.relative_analysis /\ ~RelativeAsserts(smp, nodes, pi, offset, d_pos, d_neg)
             THEN [exc |-> "AssertionError", results |-> results]
             ELSE ParamLoop_sobols(self, smp, values,
                            [results EXCEPT !.derivatives_first[k][p] = est,
                                            !.sobols_first[k][p] = est],
                            k, pi + 1, offset + 2)

\* the loop over the parameters pairing parameter pi with the rows after the
\* previous parameter's positive row, its negative row included
RECURSIVE ParamLoop_overlap(_, _, _, _, _, _, _)
ParamLoop_overlap(self, smp, values, results, k, pi, offset) ==
    IF pi >= PyLen(smp.vary) THEN [exc |-> "none", results |-> results]
    ELSE LET p == smp.vary[pi]
             nodes == smp.nodes
             y_base == values[0]
             y_pos == values[offset]
             y_neg == values[offset + 1]
             d_pos == RSub(nodes[pi][2 * pi + 1], nodes[pi][0])
             d_neg == RSub(nodes[pi][2 * pi + 2], nodes[pi][0])
             est == Estimate(self.relative_analysis, y_base, y_pos, y_neg, d_pos, d_neg)
         IN  IF self.relative_analysis
                /\ ~RelativeAsserts(smp, nodes, pi, 2 * pi + 1, d_pos, d_neg)
             THEN [exc |-> "AssertionError", results |-> results]
             ELSE ParamLoop_overlap(self, smp, values,
                            [results EXCEPT !.derivatives_first[k][p] = est],
                            k, pi + 1, offset + 1)

\* the loop over the parameters for QoI k, from parameter pi on
RECURSIVE ParamLoop(_, _, _, _, _, _, _)
ParamLoop(self, smp, values, results, k, pi, offset) ==
    IF pi >= PyLen(smp.vary) THEN [exc |-> "none", results |-> results]
    ELSE LET p == smp.vary[pi]
             nodes == smp.nodes
             y_base == values[0]
             y_pos == values[offset]
             y_neg == values[offset + 1]
             d_pos == RSub(nodes[pi][offset], nodes[pi][0])
             d_neg == RSub(nodes[pi][offset + 1], nodes[pi][0])
             est == Estimate(self.relative_analysis, y_base, y_pos, y_neg, d_pos, d_neg)
         IN  IF self.relative_analysis /\ ~RelativeAsserts(smp, nodes, pi, offset, d_pos, d_neg)
             THEN [exc |-> "AssertionError", results |-> results]
             ELSE ParamLoop(self, smp, values,
                            [results EXCEPT !.derivatives_first[k][p] = est],
                            k, pi + 1, offset + 2)

\* the loop over qoi_cols leaving at the first QoI with a zero (break for continue)
RECURSIVE QoiLoop_break(_, _, _, _, _)
QoiLoop_break(self, smp, data_frame, results, ki) ==
    IF ki >= PyLen(self.qoi_cols) THEN [exc |-> "none", results |-> results]
    ELSE LET k == self.qoi_cols[ki]
             base == data_frame.cols[k][0]
         IN  IF AllZero(base) THEN [exc |-> "none", results |-> results]
             ELSE IF AnyZero(base) THEN [exc |-> "none", results |-> results]
             ELSE LET r == ParamLoop(self, smp, data_frame.cols[k], results, k, 0, 1)
                  IN  IF r.exc # "none" THEN r
                      ELSE QoiLoop_break(self, smp, data_frame, r.results, ki + 1)

\* the loop over qoi_cols, from index ki on
RECURSIVE QoiLoop(_, _, _, _, _)
QoiLoop(self, smp, data_frame, results, ki) ==
    IF ki >= PyLen(self.qoi_cols) THEN [exc |-> "none", results |-> results]
    ELSE LET k == self.qoi_cols[ki]
             base == data_frame.cols[k][0]
         IN  IF AllZero(base) THEN QoiLoop(self, smp, data_frame, results, ki + 1)
             ELSE IF AnyZero(base) THEN QoiLoop(self, smp, data_frame, results, ki + 1)
             ELSE LET r == ParamLoop(self, smp, data_frame.cols[k], results, k, 0, 1)
                  IN  IF r.exc # "none" THEN r
                      ELSE QoiLoop(self, smp, data_frame, r.results, ki + 1)

\* FDAnalysis.analyse(data_frame) of analysis object self paired with sampler smp
analyse(self, smp, data_frame) ==
    IF data_frame.type = "NoneType" THEN Raised("RuntimeError")
    ELSE IF data_frame.empty THEN Raised("RuntimeError")
    ELSE IF PyLen(self.qoi_cols) = 0 THEN Raised("IndexError")
    ELSE LET col0 == data_frame.cols[self.qoi_cols[0]]
             T == PyLen(col0[PyLen(col0) - 1])
             r == QoiLoop(self, smp, data_frame,
                          InitialResults(self.qoi_cols, Keys(smp.vary), T), 0)
         IN  IF r.exc # "none" THEN Raised(r.exc)
             ELSE [status |-> "returned", raw_data |-> r.results,
                   qois |-> self.qoi_cols, inputs |-> smp.vary]

-----------------------------------------------------------------------------
(* The sampler's life: one construction, then pulls *)

NoArgs == [given |-> FALSE]
NoSampler == [status |-> "unbuilt"]
NoAnalysis == [status |-> "unbuilt"]
NoTable ==
    [given |-> FALSE, sampler |-> "unset", qoi_cols |-> [type |-> "unset"],
     data_frame |-> [type |-> "unset"]]
NoOutcome == [status |-> "none"]
NoDescribed == [given |-> FALSE]

Init ==
    /\ args = NoArgs
    /\ sampler = NoSampler
    /\ last = [kind |-> "none"]
    /\ runs = <<>>
    /\ produced = 0
    /\ extra = 0
    /\ analysis = NoAnalysis
    /\ table = NoTable
    /\ outcome = NoOutcome
    /\ described = NoDescribed

\* sampler = FDSampler(vary, distribution, perturbation, count, relative_analysis)
Construct(counts, perturbations) ==
    /\ sampler = NoSampler
    /\ \E vary \in VaryArgs, perturbation \in perturbations,
          count \in counts, relative_analysis \in BOOLEAN :
         \E distribution \in DistArgs(vary) :
            LET c == FDSampler(vary, distribution, perturbation, count, relative_analysis)
            IN  /\ args' = [given |-> TRUE, vary |-> vary, distribution |-> distribution,
                            perturbation |-> perturbation, count |-> count,
                            relative_analysis |-> relative_analysis]
                /\ sampler' = c.s
                /\ produced' = c.made
    /\ UNCHANGED <<last, runs, extra, analysis, table, outcome, described>>

\* next(sampler) by the caller; the campaign keeps every sample it is given
Pull ==
    /\ sampler.status = "ok"
    /\ LET r == next(sampler)
       IN  /\ sampler' = r.s
           /\ IF r.raised
              THEN /\ last.kind = "StopIteration" => extra < MaxExtraPulls
                   /\ last' = [kind |-> "StopIteration"]
                   /\ extra' = IF last.kind = "StopIteration" THEN extra + 1 ELSE extra
                   /\ UNCHANGED <<runs, produced>>
              ELSE /\ last' = [kind |-> "sample", run_dict |-> r.run_dict]
                   /\ runs' = Append(runs, r.run_dict)
                   /\ produced' = produced + 1
                   /\ UNCHANGED extra
    /\ UNCHANGED <<args, analysis, table, outcome, described>>

\* a sampler started at any count
ConstructAt == Construct(0 .. MaxStart, Perturbations)

SamplerNext == ConstructAt \/ Pull

SamplerSpec == Init /\ [][SamplerNext]_vars

-----------------------------------------------------------------------------
(* The campaign: run the model on every sample, collate, analyse *)

QoiNames == {"f", "g"}

\* the qoi_cols arguments tried
QoiArgs ==
    {[type |-> "NoneType"], [type |-> "list", items |-> List(<<>>)],
     [type |-> "list", items |-> List(<<"f">>)],
     [type |-> "list", items |-> List(<<"g">>)],
     [type |-> "list", items |-> List(<<"f", "g">>)],
     [type |-> "list", items |-> List(<<"g", "f">>)]}

\* A simulated model: output element t is m * x_p + c[t], where x_p is the
\* value the sample gives the parameter at index p.
Linear(p, m, c) == [p |-> p, m |-> m, c |-> List(c)]

Slopes == {3, -2}
Intercepts == {<<5>>, <<0>>, <<5, 0>>, <<5, 7>>}

\* models tried for QoI f with P parameters, and for QoI g
FModels(P) == {Linear(p, m, c) : p \in Range(P), m \in Slopes, c \in Intercepts}
GModels == {Linear(0, 2, <<7>>), Linear(0, 2, <<7, 0>>)}

\* the output vector of model mdl on one sample
Output(mdl, run_dict) ==
    [t \in DOMAIN mdl.c |-> RAdd(RMul(R(mdl.m), run_dict[mdl.p].value), R(mdl.c[t]))]

\* the collated column of a QoI: one output vector per run, in pull order
Column(mdl) == [i \in Range(Len(runs)) |-> Output(mdl, runs[i + 1])]

FrameNone == [type |-> "NoneType"]
FrameEmpty == [type |-> "DataFrame", empty |-> TRUE]
Frame(mf, mg) ==
    [type |-> "DataFrame", empty |-> FALSE,
     cols |-> [k \in QoiNames |-> IF k = "f" THEN Column(mf) ELSE Column(mg)],
     models |-> [k \in QoiNames |-> IF k = "f" THEN mf ELSE mg]]

\* the campaign draws samples, and runs the model on each, until the sampler
\* signals exhaustion
Draw ==
    /\ last.kind # "StopIteration"
    /\ Pull

\* every sample of a sampler started at 0 has been drawn and run
Complete ==
    /\ sampler.status = "ok"
    /\ args.count = 0
    /\ last.kind = "StopIteration"

\* analysis = FDAnalysis(sampler, qoi_cols) once the runs are in, with the
\* sampler passed or left out
NewAnalysis ==
    /\ analysis = NoAnalysis
    /\ Complete
    /\ \E qoi_cols \in QoiArgs :
         \E smp \in {[type |-> "NoneType"], [type |-> "FDSampler", object |-> sampler]} :
            /\ analysis' = FDAnalysis(smp, qoi_cols)
            /\ table' = [table EXCEPT !.sampler = smp.type, !.qoi_cols = qoi_cols]
    /\ UNCHANGED <<args, sampler, last, runs, produced, extra, outcome, described>>

\* analysis.analyse(data_frame)
Analyse ==
    /\ analysis.status = "ok"
    /\ outcome = NoOutcome
    /\ \E data_frame \in {FrameNone, FrameEmpty}
                          \cup {Frame(mf, mg) : mf \in FModels(PyLen(sampler.vary)),
                                                mg \in GModels} :
         /\ table' = [table EXCEPT !.given = TRUE, !.data_frame = data_frame]
         /\ outcome' = analyse(analysis, sampler, data_frame)
    /\ UNCHANGED <<args, sampler, last, runs, produced, extra, analysis, described>>

\* a sampler started at count 0, as a campaign starts it
ConstructFresh == Construct({0}, Perturbations)

Next == ConstructFresh \/ Draw \/ NewAnalysis \/ Analyse

Spec == Init /\ [][Next]_vars

\* the same campaign with the perturbation drawn from the edge values
ConstructEdge == Construct({0}, EdgePerturbations)

EdgeNext == ConstructEdge \/ Draw \/ NewAnalysis \/ Analyse

EdgeSpec == Init /\ [][EdgeNext]_vars

-----------------------------------------------------------------------------
(* Properties of the sampler *)

\* P and N = 2P + 1 of the vary argument given to the constructor
ArgP == PyLen(args.vary.items)
ArgN == 2 * ArgP + 1

\* a step that is a __next__ call of the caller
IsPull == last' # last \/ runs' # runs \/ extra' # extra

Started0 == args.given /\ sampler.status = "ok" /\ args.count = 0

\* C1: a sampler started at count 0 returns a sample on each of its first
\* N = 2P+1 pulls and signals StopIteration on every pull after them.
C1_ExactlyNThenExhausted ==
    [][(Started0 /\ IsPull) =>
          IF Len(runs) < ArgN
          THEN last'.kind = "sample" /\ Len(runs') = Len(runs) + 1
          ELSE last'.kind = "StopIteration" /\ runs' = runs]_vars

C1_Witness ==
    /\ Started0 /\ ArgP >= 2
    /\ Len(runs) = ArgN
    /\ last.kind = "StopIteration" /\ extra >= 1

\* the value the claim gives parameter p in its positive / negative sample
ExpectedBase(i) ==
    IF args.relative_analysis THEN Zero ELSE R(args.vary.items[i].mean)

ExpectedPos(p) ==
    IF args.relative_analysis THEN RAdd(Zero, args.perturbation)
    ELSE RMul(R(args.vary.items[p].mean), RAdd(One, args.perturbation))

ExpectedNeg(p) ==
    IF args.relative_analysis THEN RSub(Zero, args.perturbation)
    ELSE RMul(R(args.vary.items[p].mean), RSub(One, args.perturbation))

\* the sample at 0-based position k of the pull order
SampleAt(k) == runs[k + 1]

Independent0 == Started0 /\ args.distribution = DistNone

C3_FirstSampleIsBase ==
    (Independent0 /\ Len(runs) >= 1) =>
        \A i \in Range(ArgP) :
            SampleAt(0)[i] = [name |-> args.vary.items[i].name, value |-> ExpectedBase(i)]

C3_Witness ==
    /\ Independent0 /\ Len(runs) >= 1 /\ ArgP = 2
    /\ args.relative_analysis
    /\ \E i \in Range(ArgP) : args.vary.items[i].mean # 0

\* the sampler the same arguments build with start count 0
Fresh ==
    FDSampler(args.vary, args.distribution, args.perturbation, 0,
              args.relative_analysis).s

\* what the n-th pull on s gives
RECURSIVE NthPull(_, _)
NthPull(s, n) == IF n <= 1 THEN next(s) ELSE NthPull(next(s).s, n - 1)

\* exactly one pull has been made since construction
PulledOnce ==
    \/ last.kind = "sample" /\ Len(runs) = 1
    \/ last.kind = "StopIteration" /\ Len(runs) = 0 /\ extra = 0

SameAsFreshPull ==
    LET r == NthPull(Fresh, args.count + 1)
    IN  IF r.raised THEN last.kind = "StopIteration"
        ELSE last = [kind |-> "sample", run_dict |-> r.run_dict]

\* C4: for every start count k, construction completes and the first pull
\* gives what the (k+1)-th pull of a sampler started at 0 gives.
C4_FastForwardEqualsReplay ==
    (args.given /\ Fresh.status = "ok") =>
        /\ sampler.status = "ok"
        /\ PulledOnce => SameAsFreshPull

\* C5: 0 <= count <= N and count is the number of samples produced so far; a
\* pull that returns a sample adds one to count, a pull that signals
\* exhaustion leaves it, and count never decreases.
C5_Cursor ==
    /\ [](sampler.status = "ok" =>
            /\ 0 <= sampler.count /\ sampler.count <= ArgN
            /\ sampler.n_samples = ArgN
            /\ sampler.count = produced)
    /\ [][(sampler.status = "ok" /\ IsPull) =>
            /\ last'.kind = "sample" => sampler'.count = sampler.count + 1
            /\ last'.kind = "StopIteration" => sampler'.count = sampler.count
            /\ sampler'.count >= sampler.count]_vars

C5_Witness ==
    /\ sampler.status = "ok" /\ args.count >= 2
    /\ sampler.count = ArgN /\ Len(runs) >= 1
    /\ last.kind = "StopIteration"

\* the vary argument is None, not a dict or empty
BadVary == args.vary.type # "dict" \/ PyLen(args.vary.items) = 0

NonNormal == \E i \in DOMAIN args.vary.items : args.vary.items[i].kind # "Normal"

\* C10: construction raises, with no grid built and no sampler left, when vary
\* is None, not a dict or empty, and in non-relative mode when a marginal is
\* not normal; in relative mode with no dependency non-normal marginals pass
\* (the only raise left is the fast-forward past the last sample).
C10_ConstructionErrors ==
    args.given =>
        /\ BadVary =>
             /\ sampler = Raised("Exception")
             /\ produced = 0
        /\ (~BadVary /\ ~args.relative_analysis /\ NonNormal) =>
             /\ sampler = Raised("AssertionError")
             /\ produced = 0
        /\ (~BadVary /\ args.relative_analysis /\ args.distribution = DistNone) =>
             \/ sampler.status = "ok"
             \/ sampler = Raised("StopIteration") /\ args.count > ArgN

C10_Witness ==
    /\ args.given /\ ~BadVary /\ args.relative_analysis /\ NonNormal
    /\ args.distribution = DistNone
    /\ sampler.status = "ok" /\ Len(runs) >= 1

-----------------------------------------------------------------------------
(* Properties of the analysis *)

\* analyse() has been called with a table that has rows
Analysed ==
    /\ table.given
    /\ table.data_frame.type = "DataFrame"
    /\ ~table.data_frame.empty

Requested == Keys(analysis.qoi_cols)

\* the nominal (row 0) output of QoI k, and the model that produced k's column
Nominal(k) == table.data_frame.cols[k][0]
ModelOf(k) == table.data_frame.models[k]

Const(k, x) == [t \in DOMAIN Nominal(k) |-> x]

Derivative(k, i) == outcome.raw_data.derivatives_first[k][sampler.vary[i]]

C7_ZeroQoiHasNoEntry ==
    Analysed =>
        \A k \in Requested :
            AllZero(Nominal(k)) =>
                /\ outcome.status = "returned"
                /\ \/ k \notin DOMAIN outcome.raw_data.derivatives_first
                   \/ DOMAIN outcome.raw_data.derivatives_first[k] = {}

\* qoi_cols without QoI k, order kept
RECURSIVE Without(_, _)
Without(seq, k) ==
    IF seq = <<>> THEN <<>>
    ELSE IF Head(seq) = k THEN Without(Tail(seq), k)
    ELSE <<Head(seq)>> \o Without(Tail(seq), k)

AsSeq(list) == [i \in 1 .. PyLen(list) |-> list[i - 1]]

\* what analyse returns for the same table when QoI k is not requested
AnalysedWithout(k) ==
    analyse([analysis EXCEPT !.qoi_cols = List(Without(AsSeq(@), k))], sampler,
            table.data_frame)

\* length of the placeholders: the last row of the first requested QoI
PlaceholderT ==
    LET col0 == table.data_frame.cols[analysis.qoi_cols[0]]
    IN  PyLen(col0[PyLen(col0) - 1])

\* C8: a QoI whose nominal output has a zero element gets no derivative (its
\* entries stay the zero placeholders), nothing is raised, and every other
\* requested QoI that is analysed gets, wherever it stands in the list, the
\* derivatives it gets when the skipped QoI is not requested.
C8_SkipLeavesOthers ==
    Analysed =>
        \A k \in Requested :
            AnyZero(Nominal(k)) =>
                /\ outcome.status = "returned"
                /\ \A i \in Range(ArgP) : Derivative(k, i) = zeros(PlaceholderT)
                /\ \A j \in Requested \ {k} :
                       ~AnyZero(Nominal(j)) =>
                           outcome.raw_data.derivatives_first[j] =
                               AnalysedWithout(k).raw_data.derivatives_first[j]

C8_Witness ==
    /\ Analysed /\ outcome.status = "returned"
    /\ analysis.qoi_cols = List(<<"f", "g">>)
    /\ AnyZero(Nominal("f")) /\ ~AllZero(Nominal("f"))
    /\ ~AnyZero(Nominal("g"))
    /\ Derivative("g", 0) # Const("g", Zero)

\* C9: FDAnalysis fails with RuntimeError, and gives no results, when the
\* sampler is None, when the QoI list is None or empty, and when the table is
\* None or empty.
C9_InputErrors ==
    /\ (table.sampler = "NoneType" \/ table.qoi_cols.type = "NoneType"
        \/ (table.qoi_cols.type = "list" /\ PyLen(table.qoi_cols.items) = 0))
           => analysis = Raised("RuntimeError")
    /\ (table.given /\ (table.data_frame.type = "NoneType" \/ table.data_frame.empty))
           => outcome = Raised("RuntimeError")

-----------------------------------------------------------------------------
(* The results object: PCEAnalysisResults.supported_stats and _describe *)

supported_stats ==
    {"min", "max", "10%", "90%", "1%", "99%", "median", "mean", "var", "std"}

\* d[k] of a Python dict: the value, or KeyError when the key is missing
Has(d, k) == k \in DOMAIN d

\* the key of percentiles[qoi] read for a percentile statistic
PercentileKey(statistic) ==
    CASE statistic = "1%" -> "p01"
      [] statistic = "10%" -> "p10"
      [] statistic = "90%" -> "p90"
      [] statistic = "99%" -> "p99"
      [] statistic = "median" -> "p50"

Returned(value) == [exc |-> "none", value |-> value]
Raises(exc) == [exc |-> exc, value |-> NoGrid]

\* _describe with the median read from the 90th percentile
_describe_p90(raw_data, qoi, statistic) ==
    IF statistic \notin supported_stats THEN Raises("NotImplementedError")
    ELSE IF statistic \in {"min", "max"} THEN
        IF ~Has(raw_data, "output_distributions") THEN Raises("KeyError")
        ELSE IF ~Has(raw_data.output_distributions, qoi) THEN Raises("KeyError")
        ELSE LET dist == raw_data.output_distributions[qoi]
             IN  Returned([i \in DOMAIN dist |->
                              IF statistic = "min" THEN dist[i].lower[0]
                              ELSE dist[i].upper[0]])
    ELSE IF statistic \in {"1%", "10%", "90%", "99%", "median"} THEN
        LET key == IF statistic = "median" THEN "p90" ELSE PercentileKey(statistic)
        IN  IF ~Has(raw_data, "percentiles") THEN Raises("KeyError")
            ELSE IF ~Has(raw_data.percentiles, qoi) THEN Raises("KeyError")
            ELSE IF ~Has(raw_data.percentiles[qoi], key) THEN Raises("KeyError")
            ELSE Returned(raw_data.percentiles[qoi][key])
    ELSE IF /\ Has(raw_data, "statistical_moments")
            /\ Has(raw_data.statistical_moments, qoi)
            /\ Has(raw_data.statistical_moments[qoi], statistic)
         THEN Returned(raw_data.statistical_moments[qoi][statistic])
    ELSE Raises("NotImplementedError")

\* PCEAnalysisResults._describe(qoi, statistic) on a results object whose
\* raw data is raw_data: the value returned or the exception raised
_describe(raw_data, qoi, statistic) ==
    IF statistic \notin supported_stats THEN Raises("NotImplementedError")
    ELSE IF statistic \in {"min", "max"} THEN
        IF ~Has(raw_data, "output_distributions") THEN Raises("KeyError")
        ELSE IF ~Has(raw_data.output_distributions, qoi) THEN Raises("KeyError")
        ELSE LET dist == raw_data.output_distributions[qoi]
             IN  Returned([i \in DOMAIN dist |->
                              IF statistic = "min" THEN dist[i].lower[0]
                              ELSE dist[i].upper[0]])
    ELSE IF statistic \in {"1%", "10%", "90%", "99%", "median"} THEN
        LET key == PercentileKey(statistic)
        IN  IF ~Has(raw_data, "percentiles") THEN Raises("KeyError")
            ELSE IF ~Has(raw_data.percentiles, qoi) THEN Raises("KeyError")
            ELSE IF ~Has(raw_data.percentiles[qoi], key) THEN Raises("KeyError")
            ELSE Returned(raw_data.percentiles[qoi][key])
    ELSE IF /\ Has(raw_data, "statistical_moments")
            /\ Has(raw_data.statistical_moments, qoi)
            /\ Has(raw_data.statistical_moments[qoi], statistic)
         THEN Returned(raw_data.statistical_moments[qoi][statistic])
    ELSE Raises("NotImplementedError")

\* the statistic names asked for: the supported ones and two others
StatArgs == supported_stats \cup {"25%", "count"}

\* raw data of the shape analyse() builds, each of the three containers
\* describe reads being populated, empty for the QoI, without the QoI, or absent
Containers == {"statistical_moments", "percentiles", "output_distributions"}
Fillings == {"full", "empty", "noqoi", "absent"}
Vec(n) == List(<<R(n)>>)

Full(container) ==
    CASE container = "statistical_moments" ->
             [mean |-> Vec(6), var |-> Vec(7), std |-> Vec(8)]
      [] container = "percentiles" ->
             [p01 |-> Vec(1), p10 |-> Vec(2), p50 |-> Vec(3), p90 |-> Vec(4),
              p99 |-> Vec(5)]
      [] container = "output_distributions" ->
             List(<<[lower |-> Vec(-1), upper |-> Vec(9)]>>)

RawData(filling) ==
    [c \in {c \in Containers : filling[c] # "absent"} |->
        [k \in IF filling[c] = "noqoi" THEN {} ELSE {"f"} |->
            IF filling[c] = "full" THEN Full(c) ELSE NoGrid]]

\* the results objects queried: what analyse() returns for one QoI and one
\* parameter, and results over each raw data above
ResultsObjects ==
    {[status |-> "returned", raw_data |-> InitialResults(List(<<"f">>), {"x"}, 1),
      qois |-> List(<<"f">>), inputs |-> List(<<"x">>)]}
    \cup {[status |-> "returned", raw_data |-> RawData(filling),
           qois |-> List(<<"f">>), inputs |-> List(<<"x">>)] :
             filling \in [Containers -> Fillings]}

DescribeInit ==
    /\ args = NoArgs
    /\ sampler = NoSampler
    /\ last = [kind |-> "none"]
    /\ runs = <<>>
    /\ produced = 0
    /\ extra = 0
    /\ analysis = NoAnalysis
    /\ table = NoTable
    /\ outcome \in ResultsObjects
    /\ described = NoDescribed

\* results._describe(qoi, statistic)
Describe ==
    /\ outcome.status = "returned"
    /\ \E qoi \in QoiNames, statistic \in StatArgs :
         described' = [given |-> TRUE, qoi |-> qoi, statistic |-> statistic,
                       result |-> _describe(outcome.raw_data, qoi, statistic)]
    /\ UNCHANGED <<args, sampler, last, runs, produced, extra, analysis, table, outcome>>

DescribeNext == Describe

DescribeSpec == DescribeInit /\ [][DescribeNext]_vars

-----------------------------------------------------------------------------
(* Properties of the dependency argument *)

\* the shape of the distribution argument, as the three accepted shapes are
\* described: None, a dependent multivariate normal of dimension P, a matrix
\* of P rows with a unit diagonal; anything else is "invalid"
ShapeOf(distribution) ==
    IF distribution.type = "NoneType" THEN "None"
    ELSE IF /\ distribution.type = "distributions"
            /\ distribution.cls = "MvNormal"
            /\ distribution.stochastic_dependent
            /\ PyLen(distribution.mean) = ArgP
         THEN "Rosenblatt"
    ELSE IF /\ distribution.type \in {"list", "ndarray"}
            /\ PyLen(distribution.matrix) = ArgP
            /\ \A i \in Range(ArgP) : distribution.matrix[i][i] = One
         THEN "Cholesky"
    ELSE "invalid"

\* C11: a sampler is built only for a distribution argument of one of the
\* three accepted shapes (any other value is a construction error); None
\* builds an independent sampler with no transformation, a dependent joint
\* normal selects Rosenblatt and a unit-diagonal matrix selects Cholesky, so
\* the sampler is dependent exactly when one of the two is selected.
C11_DependencyShapes ==
    args.given =>
        /\ ShapeOf(args.distribution) = "invalid" => sampler.status = "error"
        /\ sampler.status = "ok" =>
             /\ sampler.transformation = ShapeOf(args.distribution)
             /\ sampler.is_dependent <=>
                    sampler.transformation \in {"Rosenblatt", "Cholesky"}
             /\ sampler.is_dependent <=> args.distribution # DistNone

C11_Witness ==
    /\ args.given /\ sampler.status = "ok" /\ ArgP = 2
    /\ sampler.is_dependent /\ sampler.transformation = "Cholesky"
    /\ Len(runs) >= 1

\* C12: with a joint distribution as dependency a sampler is built only if
\* the mean of every marginal of vary equals the joint distribution's mean at
\* the same index, in relative mode as in absolute mode.
C12_RosenblattMeansAgree ==
    (args.given /\ args.distribution.type = "distributions") =>
        /\ sampler.status = "ok" =>
             /\ PyLen(args.distribution.mean) = ArgP
             /\ \A i \in Range(ArgP) :
                    R(args.vary.items[i].mean) = args.distribution.mean[i]
        /\ (/\ PyLen(args.distribution.mean) = ArgP
            /\ \E i \in Range(ArgP) :
                   R(args.vary.items[i].mean) # args.distribution.mean[i])
               => sampler.status = "error"

C12_Witness ==
    /\ args.given /\ args.distribution.type = "distributions"
    /\ args.relative_analysis /\ ArgP = 2
    /\ sampler.status = "ok" /\ sampler.transformation = "Rosenblatt"
    /\ args.vary.items[1].mean # 0

\* C18: a pull changes the cursor and nothing else of the sampler, n_samples
\* is 2P+1 throughout, and is_finite() is true in every state.
C18_PullChangesOnlyCursor ==
    /\ [](sampler.status = "ok" =>
            /\ is_finite(sampler)
            /\ n_samples(sampler) = ArgN)
    /\ [][(sampler.status = "ok" /\ IsPull) =>
            /\ [sampler' EXCEPT !.count = sampler.count] = sampler
            /\ args' = args]_vars

C18_Witness ==
    /\ sampler.status = "ok" /\ sampler.is_dependent /\ ArgP = 2
    /\ last.kind = "StopIteration" /\ extra >= 1
    /\ sampler.count = ArgN

-----------------------------------------------------------------------------
(* Properties of describe *)

\* the container a supported statistic is read from
BackingContainer(statistic) ==
    IF statistic \in {"min", "max"} THEN "output_distributions"
    ELSE IF statistic \in {"mean", "var", "std"} THEN "statistical_moments"
    ELSE "percentiles"

Stored(container, qoi, key) ==
    /\ Has(outcome.raw_data, container)
    /\ Has(outcome.raw_data[container], qoi)
    /\ Has(outcome.raw_data[container][qoi], key)

\* C15: describe(qoi, 'median') returns what is stored under
\* percentiles[qoi]['p50'], the statistics 1%, 10%, 90%, 99% return p01, p10,
\* p90, p99, and mean, var, std return the entry of statistical_moments[qoi]
\* of that name; a statistic outside the supported set raises
\* NotImplementedError whatever the raw data holds.
C15_DescribeReadsBackingEntry ==
    described.given =>
        LET qoi == described.qoi
            statistic == described.statistic
            raw == outcome.raw_data
        IN  /\ (statistic = "median" /\ Stored("percentiles", qoi, "p50"))
                 => described.result = Returned(raw.percentiles[qoi].p50)
            /\ (statistic = "1%" /\ Stored("percentiles", qoi, "p01"))
                 => described.result = Returned(raw.percentiles[qoi].p01)
            /\ (statistic = "10%" /\ Stored("percentiles", qoi, "p10"))
                 => described.result = Returned(raw.percentiles[qoi].p10)
            /\ (statistic = "90%" /\ Stored("percentiles", qoi, "p90"))
                 => described.result = Returned(raw.percentiles[qoi].p90)
            /\ (statistic = "99%" /\ Stored("percentiles", qoi, "p99"))
                 => described.result = Returned(raw.percentiles[qoi].p99)
            /\ (statistic \in {"mean", "var", "std"}
                  /\ Stored("statistical_moments", qoi, statistic))
                 => described.result = Returned(raw.statistical_moments[qoi][statistic])
            /\ statistic \notin supported_stats
                 => described.result = Raises("NotImplementedError")

C15_Witness ==
    /\ described.given /\ described.statistic = "median"
    /\ Stored("percentiles", described.qoi, "p50")
    /\ described.result.exc = "none"
    /\ described.result.value = Vec(3)

\* C16: describe with a supported statistic whose backing container is
\* absent, lacks the QoI, or is empty for the QoI raises NotImplementedError:
\* it returns no value and raises no other error.
C16_MissingContainerNotImplemented ==
    (/\ described.given
     /\ described.statistic \in supported_stats
     /\ LET c == BackingContainer(described.statistic)
        IN  \/ ~Has(outcome.raw_data, c)
            \/ ~Has(outcome.raw_data[c], described.qoi)
            \/ DOMAIN outcome.raw_data[c][described.qoi] = {})
        => described.result = Raises("NotImplementedError")

-----------------------------------------------------------------------------
(* Properties of the pairing of samples, rows and derivatives *)

\* row i of the collated column of QoI k
Row(k, i) == table.data_frame.cols[k][i]

\* the offset of column col of the independent grid from the base column
IndependentDelta(p, col) == RSub(sampler.nodes[p][col], sampler.nodes[p][0])

Returned0 == Analysed /\ outcome.status = "returned"

\* C13: every sample pulled from a dependent sampler is the column of the
\* dependent grid at the cursor position of that pull, and the derivatives of
\* the analysis are the estimates taken with d_pos and d_neg of the
\* independent grid.
C13_DependentSamplesIndependentDeltas ==
    (sampler.status = "ok" /\ sampler.is_dependent) =>
        /\ \A j \in 1 .. Len(runs) : \A i \in Range(ArgP) :
               runs[j][i].value = sampler.nodes_dep[i][args.count + j - 1]
        /\ Returned0 =>
             \A k \in Requested : \A p \in Range(ArgP) :
                ~AnyZero(Nominal(k)) =>
                    Derivative(k, p) =
                        Estimate(analysis.relative_analysis,
                                 Row(k, 0), Row(k, 2 * p + 1), Row(k, 2 * p + 2),
                                 IndependentDelta(p, 2 * p + 1),
                                 IndependentDelta(p, 2 * p + 2))

C13_Witness ==
    /\ sampler.status = "ok" /\ sampler.is_dependent /\ ArgP = 2
    /\ Returned0
    /\ runs[2][1].value # sampler.nodes[1][1]
    /\ "f" \in Requested /\ ~AnyZero(Nominal("f"))
    /\ Derivative("f", ModelOf("f").p) # Const("f", Zero)

\* C14: a returned analysis holds, in every category but derivatives_first,
\* exactly the placeholders it started from: zero vectors of the output
\* length for moments, percentiles, Sobol indices and Fourier coefficients,
\* an empty mapping per QoI for correlation matrices and output
\* distributions, and the zero polynomial as fit.
C14_OnlyDerivativesWritten ==
    Returned0 =>
        LET raw == outcome.raw_data
            z == zeros(PlaceholderT)
            perParam == [k \in Requested |->
                            [p \in {args.vary.items[i].name : i \in Range(ArgP)} |-> z]]
        IN  /\ DOMAIN raw = {"statistical_moments", "percentiles", "sobols_first",
                             "sobols_second", "sobols_total", "correlation_matrices",
                             "output_distributions", "fit", "Fourier_coefficients",
                             "derivatives_first"}
            /\ raw.statistical_moments =
                   [k \in Requested |-> [mean |-> z, var |-> z, std |-> z]]
            /\ raw.percentiles =
                   [k \in Requested |->
                       [p01 |-> z, p10 |-> z, p50 |-> z, p90 |-> z, p99 |-> z]]
            /\ raw.sobols_first = perParam
            /\ raw.sobols_second = perParam
            /\ raw.sobols_total = perParam
            /\ raw.Fourier_coefficients = perParam
            /\ \A k \in Requested :
                   /\ DOMAIN raw.correlation_matrices[k] = {}
                   /\ DOMAIN raw.output_distributions[k] = {}
                   /\ raw.fit[k] = [polynomial |-> z]
            /\ DOMAIN raw.correlation_matrices = Requested
            /\ DOMAIN raw.output_distributions = Requested
            /\ DOMAIN raw.fit = Requested

C14_Witness ==
    /\ Returned0 /\ ArgP = 2
    /\ analysis.qoi_cols = List(<<"f", "g">>)
    /\ ~AnyZero(Nominal("f")) /\ ~AnyZero(Nominal("g"))
    /\ Derivative("f", ModelOf("f").p) # Const("f", Zero)
    /\ Derivative("g", 0) # Const("g", Zero)

-----------------------------------------------------------------------------
(* Properties of the perturbations the estimator divides by *)

RelativeOk == args.given /\ sampler.status = "ok" /\ args.relative_analysis

\* the conditions analyse asserts in relative mode, on the grid of the sampler
AssertedOnGrid ==
    \A p \in Range(ArgP) :
        /\ REq(sampler.nodes[p][0], Zero)
        /\ REq(sampler.nodes[p][2 * p + 1], args.perturbation)
        /\ REq(sampler.nodes[p][2 * p + 2], RNeg(args.perturbation))
        /\ ~sampler.is_dependent =>
             /\ REq(IndependentDelta(p, 2 * p + 1), args.perturbation)
             /\ REq(IndependentDelta(p, 2 * p + 2), RNeg(args.perturbation))

Positive(r) == r[1] > 0 /\ r[2] > 0

\* C20: for every sampler built with a positive perturbation, in absolute
\* mode for any normal marginals (mean 0 or negative included) and in
\* relative mode, the d_pos and d_neg of every parameter are non-zero and
\* opposite, so that no derivative is the result of a division by zero.
C20_DeltasNonZeroOpposite ==
    (args.given /\ sampler.status = "ok" /\ Positive(args.perturbation)) =>
        /\ \A p \in Range(ArgP) :
               /\ IndependentDelta(p, 2 * p + 1) # Zero
               /\ IndependentDelta(p, 2 * p + 2) # Zero
               /\ IndependentDelta(p, 2 * p + 2) = RNeg(IndependentDelta(p, 2 * p + 1))
        /\ Returned0 =>
             \A k \in Requested : \A p \in Range(ArgP) :
                \A t \in DOMAIN Derivative(k, p) : IsFinite(Derivative(k, p)[t])

====
